---- MODULE Spec2Model ----
(***************************************************************************)
(* The fixed-size first-fit free-list allocator of p1/malloc.c: one arena  *)
(* of HEAP_SIZE bytes, an address-ordered singly linked free list headed   *)
(* by _firstFreeBlock, and one pthread mutex.  Threads call my_malloc,     *)
(* my_free and dumpAllocator; a step of the model is the code a thread     *)
(* runs from one pthread_mutex_lock to the next one (or to its return).    *)
(***************************************************************************)
EXTENDS Integers, Sequences, FiniteSets, Bags, TLC

\* ---------------------------------------------------------------- bounds
\* Number of threads using the allocator.
NumThreads == 2
\* Arena capacity in header-sized units (HEAP_SIZE = HeapBlocks * 16).
HeapBlocks == 3
\* Largest number of allocations the callers hold at one time.
MaxLive == 2
\* Largest number of public calls made in one run.
MaxCalls == 4
\* roundUp is applied to RoundSpan values at each end of the uint64_t range.
RoundSpan == 40

\* ------------------------------------------------------------- constants
HEADER_SIZE == 16
HEAP_SIZE == HeapBlocks * HEADER_SIZE
\* Pointers are byte offsets from &_heapData[0]; NULL and the value of
\* ALLOCATED_BLOCK_MAGIC read back as a pointer lie outside the arena.
NULL == -1
ALLOCATED_BLOCK_MAGIC == -2
\* &_firstFreeBlock, as a value of the Block** update_next / prevptr.
FirstRef == -3
NoThread == 0

Threads == 1..NumThreads
\* Addresses at which a Block header can lie inside _heapData.
Slots == {HEADER_SIZE * k : k \in 0..(HeapBlocks - 1)}

\* ------------------------------------------------- uint64_t arithmetic
\* A uint64_t is four 16-bit limbs, least significant first.
Limb == 65536
U64(n) == <<n, 0, 0, 0>>
\* 2^64 - k for 1 <= k <= Limb.
U64Neg(k) == <<Limb - k, Limb - 1, Limb - 1, Limb - 1>>

\* a + b modulo 2^64.
U64Add(a, b) ==
  LET s1 == a[1] + b[1]
      s2 == a[2] + b[2] + (s1 \div Limb)
      s3 == a[3] + b[3] + (s2 \div Limb)
      s4 == a[4] + b[4] + (s3 \div Limb)
  IN  <<s1 % Limb, s2 % Limb, s3 % Limb, s4 % Limb>>

\* u & ~0xF
U64ClearLow4(u) == <<u[1] - (u[1] % 16), u[2], u[3], u[4]>>

\* a <= b on uint64_t.
U64Leq(a, b) ==
  \/ a[4] < b[4]
  \/ a[4] = b[4] /\ a[3] < b[3]
  \/ a[4] = b[4] /\ a[3] = b[3] /\ a[2] < b[2]
  \/ a[4] = b[4] /\ a[3] = b[3] /\ a[2] = b[2] /\ a[1] <= b[1]

\* roundUp adding 0x10 in place of 0xF.
roundUpAdd16(n) == U64ClearLow4(U64Add(n, U64(16)))

roundUp(n) == U64ClearLow4(U64Add(n, U64(15)))

\* ------------------------------------------------------------ the state
VARIABLES
  mem,              \* _heapData, as the header words at each slot
  firstFreeBlock,   \* _firstFreeBlock
  lock,             \* owner of the mutex, or NoThread
  mutexKind,        \* what PTHREAD_MUTEX_DEFAULT is on this platform
  magicLow,         \* whether ALLOCATED_BLOCK_MAGIC compares below the arena
  pc,               \* where each thread is
  loc,              \* each thread's arguments and locals
  live,             \* bag of [ptr, len]: returned and not yet freed
  fault,            \* how the process died, or "none"
  ret,              \* what each thread's last call returned
  calls,            \* number of public calls made so far
  rt                \* the my_malloc / my_free pair in progress, if any

vars == <<mem, firstFreeBlock, lock, mutexKind, magicLow, pc, loc, live, fault, ret, calls, rt>>

\* A Block header: next and magic share one word (nx), then size.
Header(nx, size) == [nx |-> nx, size |-> size]

\* The headers my_free finds around the block it has just linked in: the
\* block itself, its list predecessor pred (NULL after a head insert) and its
\* list successor succ.
NoNeighbours ==
  [pred |-> NULL, predHdr |-> Header(NULL, 0), size |-> 0,
   succ |-> NULL, succHdr |-> Header(NULL, 0)]

Neighbours(m, pred, block) ==
  [pred |-> pred,
   predHdr |-> IF pred \in Slots THEN m[pred] ELSE Header(NULL, 0),
   size |-> m[block].size,
   succ |-> m[block].nx,
   succHdr |-> IF m[block].nx \in Slots THEN m[m[block].nx] ELSE Header(NULL, 0)]

NoLocals ==
  [req |-> U64(0), size |-> 0, address |-> NULL, block |-> NULL,
   prevptr |-> FirstRef, freeblock |-> NULL, block1 |-> NULL, block2 |-> NULL,
   second |-> FALSE, nb |-> NoNeighbours]

NoRet == [op |-> "none", val |-> NULL]

\* The free list as a caller can observe it: the blocks reached from first
\* by next, each with its address and size, up to the first pointer that
\* leaves the arena or closes a cycle, and that pointer.
RECURSIVE ListFrom(_, _, _)
ListFrom(m, p, seen) ==
  IF p \notin Slots \/ p \in seen
  THEN <<>>
  ELSE <<p>> \o ListFrom(m, m[p].nx, seen \cup {p})

RECURSIVE ListEnd(_, _, _)
ListEnd(m, p, seen) ==
  IF p \notin Slots THEN p
  ELSE IF p \in seen THEN p
  ELSE ListEnd(m, m[p].nx, seen \cup {p})

FreeListView(m, first) ==
  [blocks |-> [i \in 1..Len(ListFrom(m, first, {})) |->
                 <<ListFrom(m, first, {})[i], m[ListFrom(m, first, {})[i]].size>>],
   end |-> ListEnd(m, first, {})]

\* No my_malloc / my_free pair is being followed.
NoRT == [phase |-> "none", ptr |-> NULL, list |-> <<>>, end |-> NULL]

\* initAllocator() on the zero-initialised static array _heapData.
initAllocator ==
  /\ mem = [a \in Slots |-> IF a = 0 THEN Header(NULL, HEAP_SIZE) ELSE Header(NULL, 0)]
  /\ firstFreeBlock = 0
  /\ lock = NoThread

Init ==
  /\ initAllocator
  /\ mutexKind \in {"normal", "errorcheck"}
  /\ magicLow \in BOOLEAN
  /\ pc = [t \in Threads |-> "idle"]
  /\ loc = [t \in Threads |-> NoLocals]
  /\ live = EmptyBag
  /\ fault = "none"
  /\ ret = [t \in Threads |-> NoRet]
  /\ calls = 0
  /\ rt = NoRT

\* ------------------------------------------------------------ the mutex
\* pthread_mutex_lock returns for thread t: the mutex is free, or t holds
\* it and the mutex reports EDEADLK (which the code ignores).  A thread that
\* relocks a mutex of the normal kind never returns from the call.
CanLock(t) == lock = NoThread \/ (lock = t /\ mutexKind = "errorcheck")

\* The owner after pthread_mutex_unlock by thread t.
Unlocked(t) == IF lock = t \/ mutexKind = "normal" THEN NoThread ELSE lock

\* Thread t sits in pthread_mutex_lock on a mutex it holds itself.
SelfLocked(t) ==
  /\ pc[t] \in {"my_malloc", "allocate_block", "my_free", "merge_blocks", "dumpAllocator"}
  /\ lock = t

\* ---------------------------------------------------------- the pointers
\* Numeric order of pointer values, for the code's < on Block*.
Rank(p) ==
  IF p = NULL THEN -2
  ELSE IF p = ALLOCATED_BLOCK_MAGIC THEN (IF magicLow THEN -1 ELSE HEAP_SIZE + 1)
  ELSE p

\* assert(next <= end) of _getNextBlockBySize on memory m.
NextWithinArena(m, current) == current + m[current].size <= HEAP_SIZE

\* _getNextBlockBySize on memory m: the address after the block, NULL at the
\* end of the arena.
GetNextBlockBySize(m, current) ==
  LET next == current + m[current].size
  IN  IF next = HEAP_SIZE THEN NULL ELSE next

\* *ref = value, for ref = &_firstFreeBlock or &(block->next).
StoreRef(m, first, ref, value) ==
  IF ref = FirstRef
  THEN [mem |-> m, first |-> value]
  ELSE [mem |-> [m EXCEPT ![ref].nx = value], first |-> first]

\* ------------------------------------------------------------- my_malloc
\* The search loop of my_malloc (lines 140-148) for a needed size: the first
\* block of the free list with block->size >= size and the slot that refers
\* to it.  st is "found", "null" (block == NULL), "segv" (the list leads out
\* of the arena) or "hang" (the list is cyclic and no block fits).
RECURSIVE SearchFrom(_, _, _, _)
SearchFrom(block, prevptr, size, seen) ==
  IF block = NULL THEN [st |-> "null", block |-> NULL, prevptr |-> prevptr]
  ELSE IF block \notin Slots THEN [st |-> "segv", block |-> block, prevptr |-> prevptr]
  ELSE IF U64Leq(size, U64(mem[block].size))
       THEN [st |-> "found", block |-> block, prevptr |-> prevptr]
  ELSE IF block \in seen THEN [st |-> "hang", block |-> block, prevptr |-> prevptr]
  ELSE SearchFrom(mem[block].nx, block, size, seen \cup {block})

Search(size) == SearchFrom(firstFreeBlock, FirstRef, size, {})

\* Line 137 without the header added.
NeededSizeNoHeader(n) == roundUp(n)

\* size = roundUp(size) + HEADER_SIZE  (line 137)
NeededSize(n) == U64Add(roundUp(n), U64(HEADER_SIZE))

\* Requests the callers make: every multiple of 16 up to the largest request
\* the arena can hold, one byte more than that, and sizes within 48 of 2^64.
Requests ==
  {U64(HEADER_SIZE * k) : k \in 0..(HeapBlocks - 1)}
    \cup {U64(HEAP_SIZE - HEADER_SIZE + 1)}
    \cup {U64Neg(1), U64Neg(17), U64Neg(33)}

\* Threads inside my_malloc.
Allocating == {t \in Threads : pc[t] \in {"my_malloc", "allocate_block"}}

\* A caller invokes my_malloc(n).
MallocCall(t, n) ==
  /\ fault = "none"
  /\ pc[t] = "idle"
  /\ calls < MaxCalls
  /\ calls' = calls + 1
  /\ BagCardinality(live) + Cardinality(Allocating) < MaxLive
  /\ pc' = [pc EXCEPT ![t] = "my_malloc"]
  /\ loc' = [loc EXCEPT ![t] = [NoLocals EXCEPT !.req = n]]
  /\ ret' = [ret EXCEPT ![t] = NoRet]
  /\ rt' = IF \A u \in Threads : pc[u] = "idle"
           THEN [phase |-> "malloc", ptr |-> NULL,
                 list |-> FreeListView(mem, firstFreeBlock).blocks,
                 end |-> FreeListView(mem, firstFreeBlock).end]
           ELSE NoRT
  /\ UNCHANGED <<mem, firstFreeBlock, lock, mutexKind, magicLow, live, fault>>

\* my_malloc, lines 135-156: lock, round, search; return NULL with the mutex
\* still locked, or unlock and go on to allocate_block.
MallocSearch(t) ==
  /\ fault = "none"
  /\ UNCHANGED calls
  /\ pc[t] = "my_malloc"
  /\ CanLock(t)
  /\ LET size == NeededSize(loc[t].req)
         r == Search(size)
     IN  CASE r.st = "segv" ->
                /\ fault' = "segv"
                /\ lock' = t
                /\ UNCHANGED <<pc, loc, ret>>
           [] r.st = "hang" ->
                /\ pc' = [pc EXCEPT ![t] = "spin"]
                /\ lock' = t
                /\ UNCHANGED <<loc, ret, fault>>
           [] r.st = "null" ->
                /\ pc' = [pc EXCEPT ![t] = "idle"]
                /\ lock' = t
                /\ loc' = [loc EXCEPT ![t] = NoLocals]
                /\ ret' = [ret EXCEPT ![t] = [op |-> "my_malloc", val |-> NULL]]
                /\ UNCHANGED fault
           [] r.st = "found" ->
                /\ pc' = [pc EXCEPT ![t] = "allocate_block"]
                /\ lock' = NoThread
                /\ loc' = [loc EXCEPT ![t].req = U64(0),
                                      ![t].size = size[1],
                                      ![t].block = r.block,
                                      ![t].prevptr = r.prevptr]
                /\ UNCHANGED <<ret, fault>>
  /\ rt' = IF pc'[t] = "idle" THEN NoRT ELSE rt
  /\ UNCHANGED <<mem, firstFreeBlock, mutexKind, magicLow, live>>

\* The body of allocate_block (lines 93-124) on memory m and head first.
\* st is "exact" (returns at line 104, no unlock), "split" (unlocks, returns
\* at line 130), "assert_size" (line 93), "assert_next" (line 40) or "segv".
AllocateBlockBody(m, first, update_next, block, new_size) ==
  IF m[block].size < new_size
  THEN [st |-> "assert_size", mem |-> m, first |-> first]
  ELSE IF m[block].size = new_size
  THEN LET s  == StoreRef(m, first, update_next, m[block].nx)
           m2 == [s.mem EXCEPT ![block].nx = ALLOCATED_BLOCK_MAGIC]
       IN  [st |-> "exact", mem |-> m2, first |-> s.first]
  ELSE LET new_free_size == m[block].size - new_size
           m1 == [m EXCEPT ![block].size = new_size]
           newfree == GetNextBlockBySize(m1, block)
       IN  IF ~NextWithinArena(m1, block)
           THEN [st |-> "assert_next", mem |-> m1, first |-> first]
           ELSE IF newfree \notin Slots
           THEN [st |-> "segv", mem |-> m1, first |-> first]
           ELSE LET m2 == [m1 EXCEPT ![newfree].size = new_free_size]
                    m3 == [m2 EXCEPT ![newfree].nx = m2[block].nx]
                    m4 == [m3 EXCEPT ![block].nx = ALLOCATED_BLOCK_MAGIC]
                    s  == StoreRef(m4, first, update_next, newfree)
                IN  [st |-> "split", mem |-> s.mem, first |-> s.first]

\* The bytes of the arena a caller may use behind a returned pointer: the
\* needed size less the header, computed in uint64_t, so a needed size of 0
\* promises 2^64 - 16 bytes, which is all of the arena from data on.
Usable(data, new_size) ==
  IF new_size >= HEADER_SIZE THEN new_size - HEADER_SIZE ELSE HEAP_SIZE - data

\* allocate_block, lines 91-130.
AllocateBlock(t) ==
  /\ fault = "none"
  /\ UNCHANGED calls
  /\ pc[t] = "allocate_block"
  /\ CanLock(t)
  /\ LET block == loc[t].block
         r == AllocateBlockBody(mem, firstFreeBlock, loc[t].prevptr, block, loc[t].size)
         data == block + HEADER_SIZE
     IN  /\ mem' = r.mem
         /\ firstFreeBlock' = r.first
         /\ IF r.st \in {"exact", "split"}
            THEN /\ lock' = IF r.st = "exact" THEN t ELSE NoThread
                 /\ pc' = [pc EXCEPT ![t] = "idle"]
                 /\ ret' = [ret EXCEPT ![t] = [op |-> "my_malloc", val |-> data]]
                 /\ live' = live (+) SetToBag({[ptr |-> data, len |-> Usable(data, loc[t].size)]})
                 /\ loc' = [loc EXCEPT ![t] = NoLocals]
                 /\ rt' = IF rt.phase = "malloc"
                          THEN [rt EXCEPT !.phase = "returned", !.ptr = data]
                          ELSE rt
                 /\ UNCHANGED fault
            ELSE /\ lock' = t
                 /\ fault' = r.st
                 /\ UNCHANGED <<pc, ret, live, loc, rt>>
  /\ UNCHANGED <<mutexKind, magicLow>>

\* ---------------------------------------------------------------- my_free
\* A caller invokes my_free on NULL or on a pointer it got from my_malloc and
\* has not freed yet.
FreeCall(t, address) ==
  /\ fault = "none"
  /\ pc[t] = "idle"
  /\ calls < MaxCalls
  /\ calls' = calls + 1
  /\ \/ /\ address = NULL
        /\ UNCHANGED live
     \/ \E e \in BagToSet(live) :
          /\ e.ptr = address
          /\ live' = live (-) SetToBag({e})
  /\ pc' = [pc EXCEPT ![t] = "my_free"]
  /\ loc' = [loc EXCEPT ![t] = [NoLocals EXCEPT !.address = address]]
  /\ ret' = [ret EXCEPT ![t] = NoRet]
  /\ rt' = IF rt.phase = "returned" /\ rt.ptr = address /\ \A u \in Threads : pc[u] = "idle"
           THEN [rt EXCEPT !.phase = "free"]
           ELSE NoRT
  /\ UNCHANGED <<mem, firstFreeBlock, lock, mutexKind, magicLow, fault>>

\* The while loop of my_free (line 201): the last list node whose next is
\* not below block, or "segv" / "hang".
RECURSIVE ScanFrom(_, _, _, _)
ScanFrom(m, freeblock, block, seen) ==
  IF freeblock \notin Slots THEN [st |-> "segv", freeblock |-> freeblock]
  ELSE IF Rank(m[freeblock].nx) < Rank(block) /\ m[freeblock].nx # NULL
  THEN IF freeblock \in seen
       THEN [st |-> "hang", freeblock |-> freeblock]
       ELSE ScanFrom(m, m[freeblock].nx, block, seen \cup {freeblock})
  ELSE [st |-> "ok", freeblock |-> freeblock]

\* Lines 191-212 of my_free: link block into the free list.  st is "head"
\* (lines 196-197), "middle" (lines 201-212), "segv" or "hang".
FreeInsertBody(m, first, block) ==
  IF Rank(block) < Rank(first)
  THEN [st |-> "head", mem |-> [m EXCEPT ![block].nx = first], first |-> block,
        freeblock |-> first]
  ELSE LET sc == ScanFrom(m, first, block, {})
           freeblock == sc.freeblock
       IN  IF sc.st # "ok"
           THEN [st |-> sc.st, mem |-> m, first |-> first, freeblock |-> freeblock]
           ELSE LET m1 == IF m[freeblock].nx = NULL
                          THEN [m EXCEPT ![block].nx = NULL]
                          ELSE [m EXCEPT ![block].nx = m[freeblock].nx]
                    m2 == [m1 EXCEPT ![freeblock].nx = block]
                IN  [st |-> "middle", mem |-> m2, first |-> first,
                     freeblock |-> freeblock]

\* my_free, lines 185-215 up to the first call of merge_blocks.
FreeInsert(t) ==
  /\ fault = "none"
  /\ UNCHANGED calls
  /\ pc[t] = "my_free"
  /\ CanLock(t)
  /\ lock' = t
  /\ IF loc[t].address = NULL
     THEN /\ pc' = [pc EXCEPT ![t] = "idle"]
          /\ ret' = [ret EXCEPT ![t] = [op |-> "my_free", val |-> NULL]]
          /\ loc' = [loc EXCEPT ![t] = NoLocals]
          /\ UNCHANGED <<mem, firstFreeBlock, fault>>
     ELSE LET block == loc[t].address - HEADER_SIZE
              r == FreeInsertBody(mem, firstFreeBlock, block)
          IN  /\ mem' = r.mem
              /\ firstFreeBlock' = r.first
              /\ UNCHANGED ret
              /\ CASE r.st = "segv" ->
                        /\ fault' = "segv"
                        /\ UNCHANGED <<pc, loc>>
                   [] r.st = "hang" ->
                        /\ pc' = [pc EXCEPT ![t] = "spin"]
                        /\ UNCHANGED <<loc, fault>>
                   [] OTHER ->
                        /\ pc' = [pc EXCEPT ![t] = "merge_blocks"]
                        /\ loc' = [loc EXCEPT ![t].block = block,
                                              ![t].freeblock = r.freeblock,
                                              ![t].block1 = block,
                                              ![t].block2 = r.mem[block].nx,
                                              ![t].second = (r.st = "middle"),
                                              ![t].nb =
                                                Neighbours(r.mem,
                                                  IF r.st = "middle"
                                                  THEN r.freeblock ELSE NULL,
                                                  block)]
                        /\ UNCHANGED fault
  /\ rt' = IF pc'[t] = "idle" THEN NoRT ELSE rt
  /\ UNCHANGED <<mutexKind, magicLow, live>>

\* merge_blocks with block1->size = block2->size in place of +=.
MergeBlocksBodyNoAdd(m, block1, block2) ==
  IF block1 \notin Slots THEN [st |-> "segv", mem |-> m]
  ELSE IF block1 + m[block1].size # block2 THEN [st |-> "apart", mem |-> m]
  ELSE IF m[block1].nx # block2 THEN [st |-> "assert_merge", mem |-> m]
  ELSE IF block2 \notin Slots THEN [st |-> "segv", mem |-> m]
  ELSE LET m1 == [m EXCEPT ![block1].size = m[block2].size]
           m2 == [m1 EXCEPT ![block1].nx = m1[block2].nx]
       IN  [st |-> "merged", mem |-> m2]

\* The body of merge_blocks (lines 169-176).  st is "apart" (returns at line
\* 170, no unlock), "merged", "assert_merge" (line 172) or "segv".
MergeBlocksBody(m, block1, block2) ==
  IF block1 \notin Slots THEN [st |-> "segv", mem |-> m]
  ELSE IF block1 + m[block1].size # block2 THEN [st |-> "apart", mem |-> m]
  ELSE IF m[block1].nx # block2 THEN [st |-> "assert_merge", mem |-> m]
  ELSE IF block2 \notin Slots THEN [st |-> "segv", mem |-> m]
  ELSE LET m1 == [m EXCEPT ![block1].size = m[block1].size + m[block2].size]
           m2 == [m1 EXCEPT ![block1].nx = m1[block2].nx]
       IN  [st |-> "merged", mem |-> m2]

\* merge_blocks, lines 167-178, called from my_free at line 198 or 215 and,
\* when second is set, once more at line 217.
MergeBlocks(t) ==
  /\ fault = "none"
  /\ UNCHANGED calls
  /\ pc[t] = "merge_blocks"
  /\ CanLock(t)
  /\ LET r == MergeBlocksBody(mem, loc[t].block1, loc[t].block2)
     IN  /\ mem' = r.mem
         /\ IF r.st \in {"apart", "merged"}
            THEN /\ lock' = IF r.st = "apart" THEN t ELSE NoThread
                 /\ IF loc[t].second
                    THEN /\ loc' = [loc EXCEPT ![t].block1 = loc[t].freeblock,
                                               ![t].block2 = loc[t].block,
                                               ![t].second = FALSE]
                         /\ UNCHANGED pc
                    ELSE /\ pc' = [pc EXCEPT ![t] = "my_free_unlock"]
                         /\ UNCHANGED loc
                 /\ UNCHANGED fault
            ELSE /\ lock' = t
                 /\ fault' = r.st
                 /\ UNCHANGED <<pc, loc>>
  /\ UNCHANGED <<firstFreeBlock, mutexKind, magicLow, live, ret, rt>>

\* my_free, line 220 and the return.
FreeUnlock(t) ==
  /\ fault = "none"
  /\ UNCHANGED calls
  /\ pc[t] = "my_free_unlock"
  /\ lock' = Unlocked(t)
  /\ pc' = [pc EXCEPT ![t] = "idle"]
  /\ ret' = [ret EXCEPT ![t] = [op |-> "my_free", val |-> NULL]]
  /\ loc' = [loc EXCEPT ![t] = NoLocals]
  /\ rt' = IF rt.phase = "free" THEN [rt EXCEPT !.phase = "done"] ELSE rt
  /\ UNCHANGED <<mem, firstFreeBlock, mutexKind, magicLow, live, fault>>

\* ---------------------------------------------------------- dumpAllocator
\* Part a of dumpAllocator (lines 55-63): all blocks by size from the start
\* of the heap.  "ok", "assert_next" (line 40) or "hang" (a block of size 0).
RECURSIVE WalkBySize(_, _)
WalkBySize(m, current) ==
  IF current = NULL THEN "ok"
  ELSE IF ~NextWithinArena(m, current) THEN "assert_next"
  ELSE IF m[current].size = 0 THEN "hang"
  ELSE WalkBySize(m, GetNextBlockBySize(m, current))

\* Part b of dumpAllocator (lines 67-74): the free list by next pointers.
RECURSIVE WalkByNext(_, _, _)
WalkByNext(m, current, seen) ==
  IF current = NULL THEN "ok"
  ELSE IF current \notin Slots THEN "segv"
  ELSE IF current \in seen THEN "hang"
  ELSE WalkByNext(m, m[current].nx, seen \cup {current})

DumpBody(m, first) ==
  IF WalkBySize(m, 0) # "ok" THEN WalkBySize(m, 0) ELSE WalkByNext(m, first, {})

\* A caller invokes dumpAllocator().
DumpCall(t) ==
  /\ fault = "none"
  /\ pc[t] = "idle"
  /\ calls < MaxCalls
  /\ calls' = calls + 1
  /\ pc' = [pc EXCEPT ![t] = "dumpAllocator"]
  /\ loc' = [loc EXCEPT ![t] = NoLocals]
  /\ ret' = [ret EXCEPT ![t] = NoRet]
  /\ rt' = NoRT
  /\ UNCHANGED <<mem, firstFreeBlock, lock, mutexKind, magicLow, live, fault>>

\* dumpAllocator, lines 49-75.
DumpAllocator(t) ==
  /\ fault = "none"
  /\ UNCHANGED calls
  /\ pc[t] = "dumpAllocator"
  /\ CanLock(t)
  /\ LET r == DumpBody(mem, firstFreeBlock)
     IN  CASE r = "ok" ->
                /\ lock' = NoThread
                /\ pc' = [pc EXCEPT ![t] = "idle"]
                /\ ret' = [ret EXCEPT ![t] = [op |-> "dumpAllocator", val |-> NULL]]
                /\ UNCHANGED fault
           [] r = "hang" ->
                /\ lock' = t
                /\ pc' = [pc EXCEPT ![t] = "spin"]
                /\ UNCHANGED <<ret, fault>>
           [] OTHER ->
                /\ lock' = t
                /\ fault' = r
                /\ UNCHANGED <<pc, ret>>
  /\ UNCHANGED <<mem, firstFreeBlock, mutexKind, magicLow, live, loc, rt>>

\* ------------------------------------------------------ the specification
Next ==
  \E t \in Threads :
    \/ \E n \in Requests : MallocCall(t, n)
    \/ MallocSearch(t)
    \/ AllocateBlock(t)
    \/ \E e \in BagToSet(live) \cup {[ptr |-> NULL, len |-> 0]} : FreeCall(t, e.ptr)
    \/ FreeInsert(t)
    \/ MergeBlocks(t)
    \/ FreeUnlock(t)
    \/ DumpCall(t)
    \/ DumpAllocator(t)

Spec == Init /\ [][Next]_vars

\* ------------------------------------------------------------ properties
\* No public operation is in progress.
Quiescent == \A t \in Threads : pc[t] = "idle"

\* The blocks found by walking from the arena start by size, and where the
\* walk stops.
RECURSIVE BlocksFrom(_, _)
BlocksFrom(m, a) ==
  IF a \in Slots /\ m[a].size > 0
  THEN <<a>> \o BlocksFrom(m, a + m[a].size)
  ELSE <<>>

RECURSIVE WalkEnd(_, _)
WalkEnd(m, a) ==
  IF a \in Slots /\ m[a].size > 0 THEN WalkEnd(m, a + m[a].size) ELSE a

SeqToSet(q) == {q[i] : i \in 1..Len(q)}
IsAllocated(a) == mem[a].nx = ALLOCATED_BLOCK_MAGIC
FreeListBlocks == ListFrom(mem, firstFreeBlock, {})

\* Byte ranges [a1, a1 + l1) and [a2, a2 + l2) share a byte.
Overlap(a1, l1, a2, l2) == l1 > 0 /\ l2 > 0 /\ a1 < a2 + l2 /\ a2 < a1 + l1

\* C1: from the selection of a candidate block in my_malloc to the commit in
\* allocate_block the selecting thread holds the lock, and no two threads
\* have selected the same free block.
C1_SearchCommitAtomic ==
  /\ \A t \in Threads : pc[t] = "allocate_block" => lock = t
  /\ \A t, u \in Threads :
       (t # u /\ pc[t] = "allocate_block" /\ pc[u] = "allocate_block")
         => loc[t].block # loc[u].block

\* C3: in every state where no operation is in progress the lock is free.
C3_LockFreeWhenIdle == Quiescent => lock = NoThread

\* C4: the payload regions of the live allocations are pairwise disjoint and
\* disjoint from every free block.
C4_Disjoint ==
  /\ \A e \in BagToSet(live) : e.len > 0 => CopiesIn(e, live) = 1
  /\ \A e, f \in BagToSet(live) : e # f => ~Overlap(e.ptr, e.len, f.ptr, f.len)
  /\ \A e \in BagToSet(live) : \A b \in SeqToSet(FreeListBlocks) :
       ~Overlap(e.ptr, e.len, b, mem[b].size)

\* C5: between public operations the walk by size from the arena start ends
\* exactly at the end of the arena.
C5_Partition == Quiescent => WalkEnd(mem, 0) = HEAP_SIZE

\* Between operations, after a my_free that returned, the arena holds at
\* least two blocks and a live allocation.
C5_Witness ==
  /\ Quiescent
  /\ \E t \in Threads : ret[t].op = "my_free"
  /\ Len(BlocksFrom(mem, 0)) >= 2
  /\ live # EmptyBag

\* C6: between public operations the free list ends in NULL and visits, in
\* increasing address order, exactly the blocks not marked allocated.
C6_FreeListSound ==
  Quiescent =>
    /\ ListEnd(mem, firstFreeBlock, {}) = NULL
    /\ FreeListBlocks = SelectSeq(BlocksFrom(mem, 0), LAMBDA a : ~IsAllocated(a))

\* Thread t returns from my_malloc or my_free in this step.
Returns(t) ==
  /\ pc[t] \in {"my_malloc", "allocate_block", "my_free", "my_free_unlock"}
  /\ pc'[t] = "idle"

\* No block of the free list of memory m ends where another one starts.
NoAdjacentFree(m, first) ==
  \A a, b \in SeqToSet(ListFrom(m, first, {})) : a + m[a].size # b

\* C7: when a my_malloc or my_free call returns, no two free blocks are
\* physically adjacent.
C7_NoAdjacentFree ==
  [][(\E t \in Threads : Returns(t)) => NoAdjacentFree(mem', firstFreeBlock')]_vars

\* No block of the free list is as large as roundUp(n) + HEADER_SIZE, and the
\* list ends in NULL.
NoFit(n) ==
  /\ ListEnd(mem, firstFreeBlock, {}) = NULL
  /\ \A b \in SeqToSet(FreeListBlocks) :
       ~U64Leq(U64Add(roundUp(n), U64(HEADER_SIZE)), U64(mem[b].size))

ReturnedNull(r) == r.op = "my_malloc" /\ r.val = NULL

Fresh == calls = 1 /\ firstFreeBlock = 0 /\ mem[0] = Header(NULL, HEAP_SIZE)

\* C9: on a freshly initialised allocator my_malloc(n) returns NULL for every
\* n > HEAP_SIZE - HEADER_SIZE, and my_malloc(HEAP_SIZE - HEADER_SIZE) succeeds
\* and leaves the free list empty.
C9_ExhaustionBoundary ==
  [][\A t \in Threads :
       /\ (Fresh /\ pc[t] = "my_malloc" /\ pc'[t] # "my_malloc"
             /\ ~U64Leq(loc[t].req, U64(HEAP_SIZE - HEADER_SIZE)))
            => (pc'[t] = "idle" /\ ReturnedNull(ret'[t]))
       /\ (Fresh /\ pc[t] = "my_malloc" /\ pc'[t] # "my_malloc"
             /\ loc[t].req = U64(HEAP_SIZE - HEADER_SIZE))
            => pc'[t] = "allocate_block"
       /\ (Fresh /\ pc[t] = "allocate_block" /\ loc[t].size = HEAP_SIZE
             /\ pc'[t] # "allocate_block")
            => (ret'[t].val # NULL /\ firstFreeBlock' = NULL)
    ]_vars

\* The followed my_malloc / my_free pair is over: my_free has returned, or
\* the process died in it.
RoundTripOver == rt.phase = "done" \/ (rt.phase = "free" /\ fault # "none")

\* C10: a successful my_malloc followed immediately by my_free of the returned
\* pointer restores the free list the my_malloc call found: the same blocks
\* at the same addresses with the same sizes in the same order.
C10_RoundTrip ==
  RoundTripOver =>
    FreeListView(mem, firstFreeBlock) = [blocks |-> rt.list, end |-> rt.end]

\* ---------------------------------------------------------------- liveness
\* The scheduler runs every thread that can take a step.
Step(t) ==
  \/ MallocSearch(t)
  \/ AllocateBlock(t)
  \/ FreeInsert(t)
  \/ MergeBlocks(t)
  \/ FreeUnlock(t)
  \/ DumpAllocator(t)

FairSpec == Spec /\ \A t \in Threads : WF_vars(Step(t))

\* C2: no thread tries to lock the mutex while it holds it, and every call
\* of a public operation eventually returns.
C2_EveryCallReturns ==
  /\ [](\A t \in Threads : ~SelfLocked(t))
  /\ \A t \in Threads : (pc[t] # "idle") ~> (pc[t] = "idle")

\* The free list right after initAllocator: one free block at offset 0 that
\* spans the arena (lines 26-28).
InitialFreeList ==
  /\ firstFreeBlock = 0
  /\ mem[0] = Header(NULL, HEAP_SIZE)

\* C11: once every my_malloc and my_free call has returned and every pointer
\* my_malloc returned has been freed exactly once, the free list is again the
\* single block at offset 0 of size HEAP_SIZE with next NULL.
C11_FullReassembly ==
  (Quiescent /\ fault = "none" /\ live = EmptyBag) => InitialFreeList

\* C12: when my_free inserts a live block while _firstFreeBlock is NULL, the
\* block becomes the head of the free list with next NULL and no NULL pointer
\* is dereferenced.
C12_FreeIntoEmptyList ==
  [][\A t \in Threads :
       (FreeInsert(t) /\ firstFreeBlock = NULL /\ loc[t].address # NULL)
         => /\ fault' = "none"
            /\ firstFreeBlock' = loc[t].address - HEADER_SIZE
            /\ mem'[loc[t].address - HEADER_SIZE].nx = NULL]_vars

\* C13: my_free(NULL) returns leaving the arena, _firstFreeBlock and the rest
\* of the allocator state, the mutex included, as they were before the call.
C13_FreeNullNoOp ==
  [][\A t \in Threads :
       (FreeInsert(t) /\ loc[t].address = NULL)
         => /\ pc'[t] = "idle"
            /\ mem' = mem
            /\ firstFreeBlock' = firstFreeBlock
            /\ lock' = lock]_vars

\* ------------------------------------------------- roundUp on its own
\* Arguments of roundUp: the first RoundSpan values above 0, the last
\* RoundSpan values below 2^64, and the values either side of each carry
\* between limbs.
RoundInputs ==
  {U64(k) : k \in 0..RoundSpan}
    \cup {U64Neg(k) : k \in 1..RoundSpan}
    \cup {<<Limb - k, 0, 0, 0>> : k \in 1..RoundSpan}
    \cup {<<Limb - k, Limb - 1, 0, 0>> : k \in 1..RoundSpan}
    \cup {<<Limb - k, Limb - 1, Limb - 1, 0>> : k \in 1..RoundSpan}
    \cup {<<k, 1, 0, 0>> : k \in 0..RoundSpan}

\* Thread 1 is about to call roundUp(n) on a fresh allocator.
RoundInit ==
  /\ initAllocator
  /\ mutexKind = "normal"
  /\ magicLow = FALSE
  /\ pc = [t \in Threads |-> IF t = 1 THEN "roundUp" ELSE "idle"]
  /\ \E n \in RoundInputs :
       loc = [t \in Threads |->
                IF t = 1 THEN [NoLocals EXCEPT !.req = n] ELSE NoLocals]
  /\ live = EmptyBag
  /\ fault = "none"
  /\ ret = [t \in Threads |-> NoRet]
  /\ calls = 0
  /\ rt = NoRT

\* roundUp(n) returns (lines 81-84); it touches no allocator state.
RoundUpCall(t) ==
  /\ pc[t] = "roundUp"
  /\ pc' = [pc EXCEPT ![t] = "idle"]
  /\ ret' = [ret EXCEPT ![t] = [op |-> "roundUp", val |-> roundUp(loc[t].req)]]
  /\ UNCHANGED <<mem, firstFreeBlock, lock, mutexKind, magicLow, loc, live,
                 fault, calls, rt>>

RoundNext == \E t \in Threads : RoundUpCall(t)

RoundSpec == RoundInit /\ [][RoundNext]_vars

\* r is the smallest multiple of 16 that is >= n, as numbers below 2^64.
IsLeastMultiple(n, r) ==
  /\ r[1] % 16 = 0
  /\ U64Leq(n, r)
  /\ \E d \in 0..15 : U64Add(n, U64(d)) = r

RoundUpReturned(t) == ret[t].op = "roundUp"

\* C14 as stated: for every uint64_t n, roundUp(n) is the smallest multiple
\* of 16 that is >= n, with no wrap-around.
C14_RoundUpEveryInput ==
  \A t \in Threads :
    RoundUpReturned(t) => IsLeastMultiple(loc[t].req, ret[t].val)

\* C14 amended: for n <= 2^64 - 16, roundUp(n) is the smallest multiple of 16
\* that is >= n; for the fifteen larger values of n it is 0.
C14_RoundUpBelowWrap ==
  \A t \in Threads :
    RoundUpReturned(t) =>
      IF U64Leq(loc[t].req, U64Neg(16))
      THEN IsLeastMultiple(loc[t].req, ret[t].val)
      ELSE ret[t].val = U64(0)

\* roundUp has returned for an argument below 2^64 - 16 whose rounding
\* carries into the second limb.
C14_Witness ==
  \E t \in Threads :
    /\ RoundUpReturned(t)
    /\ loc[t].req = <<Limb - 3, 0, 0, 0>>
    /\ ret[t].val = <<0, 1, 0, 0>>

\* The blocks of the free list that are at least size bytes large.
Fitting(size) == {b \in SeqToSet(FreeListBlocks) : mem[b].size >= size}

\* block is the first block in free-list order that is at least size bytes
\* large, and no fitting free block has a lower address.
IsFirstFit(block, size) ==
  /\ \E i \in 1..Len(FreeListBlocks) :
       /\ FreeListBlocks[i] = block
       /\ mem[block].size >= size
       /\ \A j \in 1..(i - 1) : mem[FreeListBlocks[j]].size < size
  /\ \A b \in Fitting(size) : block <= b

\* C15: a my_malloc that returns a pointer has allocated the first block of
\* the free list, which is also the lowest-address free block, whose size is
\* at least roundUp(n) + HEADER_SIZE, and my_malloc returns NULL only when no
\* free block is that large.
C15_FirstFit ==
  [][\A t \in Threads :
       /\ (AllocateBlock(t) /\ pc'[t] = "idle")
            => IsFirstFit(loc[t].block, loc[t].size)
       /\ (MallocSearch(t) /\ pc'[t] = "idle")
            => NoFit(loc[t].req)]_vars

\* Where the pointer slot ref points: _firstFreeBlock or the next field of
\* the block ref.
RefValue(m, first, ref) == IF ref = FirstRef THEN first ELSE m[ref].nx

\* C16: when allocate_block is given a free block of size S at address a and
\* a needed size N < S, then afterwards the block at a is allocated with size
\* N, the block at a + N is free with size S - N and the next the block at a
\* had, the slot that referenced a references a + N, and every other block
\* is as it was.
C16_SplitResult ==
  [][\A t \in Threads :
       LET a == loc[t].block
           N == loc[t].size
           S == mem[a].size
       IN  (AllocateBlock(t) /\ N < S)
             => /\ pc'[t] = "idle"
                /\ mem'[a] = Header(ALLOCATED_BLOCK_MAGIC, N)
                /\ a + N \in Slots
                /\ mem'[a + N] = Header(mem[a].nx, S - N)
                /\ RefValue(mem', firstFreeBlock', loc[t].prevptr) = a + N
                /\ \A b \in Slots \ {a, a + N} : mem'[b] = mem[b]]_vars

\* The blocks of the arena, allocated and free, in address order.
ArenaBlocks == SeqToSet(BlocksFrom(mem, 0))

\* Every block's size is a multiple of 16 and at least HEADER_SIZE.
BlockSizesOk ==
  \A b \in ArenaBlocks \cup SeqToSet(FreeListBlocks) :
    mem[b].size % HEADER_SIZE = 0 /\ mem[b].size >= HEADER_SIZE

\* C17: after every step every block's size is a multiple of 16 and at least
\* HEADER_SIZE, and a block that allocate_block hands out has the needed size
\* roundUp(n) + HEADER_SIZE, which is at least HEADER_SIZE.
C17_BlockSizes ==
  [][/\ BlockSizesOk'
     /\ \A t \in Threads :
          (AllocateBlock(t) /\ pc'[t] = "idle")
            => /\ loc[t].size >= HEADER_SIZE
               /\ mem'[loc[t].block].size = loc[t].size]_vars

\* The allocator after thread 1 has run a = my_malloc(0), b = my_malloc(0),
\* my_free(a) on a fresh arena whose mutex reports EDEADLK: block 0 is free,
\* block 16 is allocated and still live, the rest of the arena is free.
\* calls counts the calls made from here on.
AfterTwoMallocsOneFree ==
  /\ mem = [a \in Slots |->
              CASE a = 0 -> Header(2 * HEADER_SIZE, HEADER_SIZE)
                [] a = HEADER_SIZE -> Header(ALLOCATED_BLOCK_MAGIC, HEADER_SIZE)
                [] a = 2 * HEADER_SIZE -> Header(NULL, HEAP_SIZE - 2 * HEADER_SIZE)
                [] OTHER -> Header(NULL, 0)]
  /\ firstFreeBlock = 0
  /\ lock = NoThread
  /\ live = SetToBag({[ptr |-> 2 * HEADER_SIZE, len |-> 0]})

MergeInit ==
  /\ AfterTwoMallocsOneFree
  /\ mutexKind = "errorcheck"
  /\ magicLow \in BOOLEAN
  /\ pc = [t \in Threads |-> "idle"]
  /\ loc = [t \in Threads |-> NoLocals]
  /\ fault = "none"
  /\ ret = [t \in Threads |->
              IF t = 1 THEN [op |-> "my_free", val |-> NULL] ELSE NoRet]
  /\ calls = 0
  /\ rt = NoRT

MergeSpec == MergeInit /\ [][Next]_vars

\* my_free of thread t comes back from its last call of merge_blocks.
MergesDone(t) == MergeBlocks(t) /\ pc'[t] = "my_free_unlock"

\* The freed block of thread t ends where its list successor starts; its
\* list predecessor ends where the freed block starts.
SuccAdjacent(t) ==
  loc[t].nb.succ \in Slots /\ loc[t].block + loc[t].nb.size = loc[t].nb.succ
PredAdjacent(t) ==
  loc[t].nb.pred \in Slots /\ loc[t].nb.pred + loc[t].nb.predHdr.size = loc[t].block

\* C18: when my_free has made its merge_blocks calls for a freed block with
\* list predecessor P and list successor Q, then: with both adjacent, P has
\* size(P) + size(freed) + size(Q) and Q's former next; with only Q adjacent
\* the freed block has absorbed Q and P is unchanged; with only P adjacent P
\* has absorbed the freed block and Q is unchanged; with neither adjacent all
\* three are unchanged.  No merge_blocks call of my_free fails.
C18_ThreeWayMerge ==
  [][\A t \in Threads :
       /\ (MergeBlocks(t) /\ loc[t].address # NULL) => fault' = "none"
       /\ MergesDone(t) =>
            LET nb == loc[t].nb
                b  == loc[t].block
            IN  /\ (PredAdjacent(t) /\ SuccAdjacent(t)) =>
                     mem'[nb.pred] =
                       Header(nb.succHdr.nx,
                              nb.predHdr.size + nb.size + nb.succHdr.size)
                /\ (~PredAdjacent(t) /\ SuccAdjacent(t)) =>
                     /\ mem'[b] = Header(nb.succHdr.nx, nb.size + nb.succHdr.size)
                     /\ nb.pred \in Slots => mem'[nb.pred] = nb.predHdr
                /\ (PredAdjacent(t) /\ ~SuccAdjacent(t)) =>
                     /\ mem'[nb.pred] = Header(nb.succ, nb.predHdr.size + nb.size)
                     /\ nb.succ \in Slots => mem'[nb.succ] = nb.succHdr
                /\ (~PredAdjacent(t) /\ ~SuccAdjacent(t)) =>
                     /\ mem'[b] = Header(nb.succ, nb.size)
                     /\ nb.pred \in Slots => mem'[nb.pred] = nb.predHdr
                     /\ nb.succ \in Slots => mem'[nb.succ] = nb.succHdr]_vars

\* C19: no assertion of the allocator fails: not block->size >= new_size in
\* allocate_block (line 93), not block1->next == block2 in merge_blocks
\* (line 172), not next <= end in _getNextBlockBySize (line 40).
C19_AssertionsHold ==
  fault \notin {"assert_size", "assert_merge", "assert_next"}

====
